---- MODULE Spec2Model ----
(***************************************************************************)
(* Model of src/openai.rs: the chat data model with its serde-derived JSON *)
(* encoding and decoding, and the blocking client OpenAI with its single   *)
(* operation complete_chat.                                                *)
(*                                                                         *)
(* JSON is modelled at the level of parsed values (serde_json's data       *)
(* model): a value is a record [t, v] whose tag t is one of "str", "int",  *)
(* "float", "null", "arr", "obj", or "syntax_error" for bytes that are not *)
(* JSON at all.  An object keeps its members as a sequence of <<key,       *)
(* value>> pairs, so member order, duplicate keys and unknown keys exist.  *)
(* Rust values and wire values are kept apart: a ChatRole is one of the    *)
(* variant names "System", "User", "Assistant", its wire form the JSON     *)
(* string given by its serde(rename).                                      *)
(***************************************************************************)
EXTENDS Integers, Sequences, FiniteSets, TLC

VARIABLES
    client,     \* the OpenAI value: [client, api_key]
    newKey,     \* the api_key argument OpenAI::new was called with
    pc,         \* per thread: "idle", "built", "replied", "done"
    chat,       \* per thread: the ChatLog argument of the running call
    request,    \* per thread: the ChatCompletionRequest built at line 123
    wire,       \* per thread: the HTTP request handed to send()
    reply,      \* per thread: what send() produced
    result,     \* per thread: the Result complete_chat returns
    steps,      \* per thread: the steps of complete_chat run in this call
    calls,      \* per thread: calls of complete_chat started
    sent,       \* per thread: requests handed to the network
    codec       \* one application of an encoder or decoder: [op, in, out]

vars == <<client, newKey, pc, chat, request, wire, reply, result, steps, calls, sent, codec>>

(***************************************************************************)
(* Bounds                                                                  *)
(***************************************************************************)
\* longest ChatLog the codec specification encodes
MaxLen == 2
\* calls of complete_chat per thread
MaxCalls == 2

Threads == {"t1", "t2"}
Keys == {"sk-a", "sk-b"}

(***************************************************************************)
(* JSON values                                                             *)
(***************************************************************************)
Str(s) == [t |-> "str", v |-> s]
Num(n) == [t |-> "int", v |-> n]
Float == [t |-> "float", v |-> "1.5"]
Null == [t |-> "null", v |-> "null"]
Arr(s) == [t |-> "arr", v |-> s]
Obj(members) == [t |-> "obj", v |-> members]
SyntaxError == [t |-> "syntax_error", v |-> "{\"id\":"]

Ok(x) == [ok |-> TRUE, v |-> x]
Err == [ok |-> FALSE]

(***************************************************************************)
(* Enumerations: variant names and their serde(rename) wire tokens         *)
(***************************************************************************)
ChatRoleVariants == {"System", "User", "Assistant"}
FinishReasonVariants == {"Stop", "Length"}

ChatRoleToken(r) ==
    CASE r = "System" -> "system"
      [] r = "User" -> "user"
      [] r = "Assistant" -> "assistant"

FinishReasonToken(f) ==
    CASE f = "Stop" -> "stop"
      [] f = "Length" -> "length"

(***************************************************************************)
(* Serialize (derive(Serialize)): a unit variant is its token, a struct an *)
(* object with its fields in declaration order, a Vec an array, the        *)
(* newtype ChatLog its inner Vec.                                          *)
(***************************************************************************)
SerChatRole(r) == Str(ChatRoleToken(r))

SerFinishReason(f) == Str(FinishReasonToken(f))

SerChatEntry(e) ==
    Obj(<< <<"role", SerChatRole(e.role)>>, <<"content", Str(e.content)>> >>)

SerChatLogReversed(log) ==
    Arr([i \in 1..Len(log) |-> SerChatEntry(log[Len(log) + 1 - i])])

SerChatLog(log) ==
    Arr([i \in 1..Len(log) |-> SerChatEntry(log[i])])

SerRequest(r) ==
    Obj(<< <<"model", Str(r.model)>>, <<"messages", SerChatLog(r.messages)>> >>)

(***************************************************************************)
(* Deserialize (derive(Deserialize)) as serde_json drives it.              *)
(***************************************************************************)
DeString(j) == IF j.t = "str" THEN Ok(j.v) ELSE Err

\* usize: a non-negative integer literal; a float or a negative number is
\* an invalid type or value
DeUsizeSigned(j) == IF j.t = "int" THEN Ok(j.v) ELSE Err

DeUsize(j) == IF j.t = "int" /\ j.v >= 0 THEN Ok(j.v) ELSE Err

\* A unit-only enum: the string naming a variant, or the one-member object
\* {"<variant>": null}; any other token is an unknown variant.  table maps
\* each variant to its token.
VariantOf(tok, table) ==
    IF \E x \in DOMAIN table : table[x] = tok
    THEN Ok(CHOOSE x \in DOMAIN table : table[x] = tok)
    ELSE Err

DeUnitEnum(j, table) ==
    IF j.t = "str" THEN VariantOf(j.v, table)
    ELSE IF j.t = "obj" /\ Len(j.v) = 1 /\ j.v[1][2].t = "null"
         THEN VariantOf(j.v[1][1], table)
         ELSE Err

DeChatRoleDefaulting(j) ==
    IF j.t = "str"
    THEN IF VariantOf(j.v, [r \in ChatRoleVariants |-> ChatRoleToken(r)]).ok
         THEN VariantOf(j.v, [r \in ChatRoleVariants |-> ChatRoleToken(r)])
         ELSE Ok("User")
    ELSE Err

DeChatRole(j) == DeUnitEnum(j, [r \in ChatRoleVariants |-> ChatRoleToken(r)])

DeFinishReason(j) == DeUnitEnum(j, [f \in FinishReasonVariants |-> FinishReasonToken(f)])

Range(s) == {s[i] : i \in 1..Len(s)}

\* The members of an object whose key is k
Members(j, k) == {i \in 1..Len(j.v) : j.v[i][1] = k}

\* The JSON value of every field of a struct.  From an object (visit_map):
\* every field exactly once, unknown keys skipped, a repeated field or a
\* missing one an error.  From an array (visit_seq): the fields in
\* declaration order, exactly as many elements as fields.
Fields(j, names) ==
    IF j.t = "obj"
    THEN IF \A n \in Range(names) : Cardinality(Members(j, n)) = 1
         THEN Ok([n \in Range(names) |-> j.v[CHOOSE i \in Members(j, n) : TRUE][2]])
         ELSE Err
    ELSE IF j.t = "arr"
         THEN IF Len(j.v) = Len(names)
              THEN Ok([n \in Range(names) |->
                          j.v[CHOOSE i \in 1..Len(names) : names[i] = n]])
              ELSE Err
         ELSE Err

DeChatEntry(j) ==
    LET f == Fields(j, <<"role", "content">>) IN
    IF ~f.ok THEN Err
    ELSE LET r == DeChatRole(f.v["role"])
             c == DeString(f.v["content"]) IN
         IF r.ok /\ c.ok THEN Ok([role |-> r.v, content |-> c.v]) ELSE Err

DeChatLog(j) ==
    IF j.t = "arr" /\ \A i \in 1..Len(j.v) : DeChatEntry(j.v[i]).ok
    THEN Ok([i \in 1..Len(j.v) |-> DeChatEntry(j.v[i]).v])
    ELSE Err

DeChoice(j) ==
    LET f == Fields(j, <<"index", "message", "finish_reason">>) IN
    IF ~f.ok THEN Err
    ELSE LET i == DeUsize(f.v["index"])
             m == DeChatEntry(f.v["message"])
             r == DeFinishReason(f.v["finish_reason"]) IN
         IF i.ok /\ m.ok /\ r.ok
         THEN Ok([index |-> i.v, message |-> m.v, finish_reason |-> r.v])
         ELSE Err

DeChoicesNonEmpty(j) ==
    IF j.t = "arr" /\ Len(j.v) > 0 /\ \A i \in 1..Len(j.v) : DeChoice(j.v[i]).ok
    THEN Ok([i \in 1..Len(j.v) |-> DeChoice(j.v[i]).v])
    ELSE Err

DeChoices(j) ==
    IF j.t = "arr" /\ \A i \in 1..Len(j.v) : DeChoice(j.v[i]).ok
    THEN Ok([i \in 1..Len(j.v) |-> DeChoice(j.v[i]).v])
    ELSE Err

DeUsage(j) ==
    LET f == Fields(j, <<"prompt_tokens", "completion_tokens", "total_tokens">>) IN
    IF ~f.ok THEN Err
    ELSE LET p == DeUsize(f.v["prompt_tokens"])
             c == DeUsize(f.v["completion_tokens"])
             t == DeUsize(f.v["total_tokens"]) IN
         IF p.ok /\ c.ok /\ t.ok
         THEN Ok([prompt_tokens |-> p.v, completion_tokens |-> c.v, total_tokens |-> t.v])
         ELSE Err

DeResponse(j) ==
    LET f == Fields(j, <<"id", "object", "created", "choices", "usage">>) IN
    IF ~f.ok THEN Err
    ELSE LET i == DeString(f.v["id"])
             o == DeString(f.v["object"])
             c == DeUsize(f.v["created"])
             ch == DeChoices(f.v["choices"])
             u == DeUsage(f.v["usage"]) IN
         IF i.ok /\ o.ok /\ c.ok /\ ch.ok /\ u.ok
         THEN Ok([id |-> i.v, object |-> o.v, created |-> c.v,
                  choices |-> ch.v, usage |-> u.v])
         ELSE Err

(***************************************************************************)
(* ChatCompletionRequest                                                   *)
(***************************************************************************)
ChatCompletionRequestNew(model, messages) == [model |-> model, messages |-> messages]

FromOtherModel(log) == ChatCompletionRequestNew("gpt-4", log)

From(log) == ChatCompletionRequestNew("gpt-3.5-turbo", log)

(***************************************************************************)
(* The client                                                              *)
(***************************************************************************)
OpenAINew(api_key) == [client |-> "reqwest::blocking::Client", api_key |-> api_key]

Endpoint == "https://api.openai.com/v1/chat/completions"

\* RequestBuilder: post(url), bearer_auth(key), json(&request)
PostNoAuth(c, req) ==
    [method |-> "POST", url |-> Endpoint, bearer |-> "",
     content_type |-> "application/json", body |-> SerRequest(req)]

Post(c, req) ==
    [method |-> "POST", url |-> Endpoint, bearer |-> c.api_key,
     content_type |-> "application/json", body |-> SerRequest(req)]

\* What the network can do with one request: send() fails, or a reply with
\* some status arrives whose body is JSON, is not JSON, or breaks off.  A
\* body that breaks off carries the kind of reqwest::Error reading it gives:
\* Body or Decode, depending on the failure and on the reqwest release.
BodyDropped(kind) == [t |-> "dropped", v |-> kind]
Statuses == {200, 500}
NoReply == [kind |-> "none"]
SendFailed == [kind |-> "send_failed"]
Response(status, body) == [kind |-> "response", status |-> status, body |-> body]

\* reqwest::Error by its kind: a failed send() is a Request error, a body
\* that cannot be read the error its reading gives, a body serde_json rejects
\* a Decode error.
Failure(kind) == [ok |-> FALSE, err |-> [kind |-> kind]]

SendError == Failure("Request")

JsonErrorAlwaysRequest(body) == Failure("Request")

JsonError(body) == IF body.t = "dropped" THEN Failure(body.v) ELSE Failure("Decode")

\* Response::json::<ChatCompletionResponse>(): read the whole body, then
\* serde_json::from_slice; the status line plays no part.
JsonChecksStatus(r) ==
    IF r.status # 200 THEN Failure("Status")
    ELSE IF DeResponse(r.body).ok THEN DeResponse(r.body) ELSE JsonError(r.body)

Json(r) ==
    IF DeResponse(r.body).ok THEN DeResponse(r.body) ELSE JsonError(r.body)

Entry(r, c) == [role |-> r, content |-> c]
GoodChoice ==
    Obj(<< <<"index", Num(0)>>,
           <<"message", SerChatEntry(Entry("Assistant", "A"))>>,
           <<"finish_reason", SerFinishReason("Stop")>> >>)
GoodUsage ==
    Obj(<< <<"prompt_tokens", Num(10)>>, <<"completion_tokens", Num(1)>>,
           <<"total_tokens", Num(11)>> >>)
ResponseJ(choices) ==
    Obj(<< <<"id", Str("x")>>, <<"object", Str("chat.completion")>>,
           <<"created", Num(1)>>, <<"choices", choices>>, <<"usage", GoodUsage>> >>)
ErrorJ == Obj(<< <<"error", Obj(<< <<"message", Str("invalid api key")>> >>)>> >>)

ClientChats ==
    { <<>>,
      <<Entry("System", "You are an assistant that always says \"A\""),
        Entry("User", "Please say \"A\".")>>,
      <<Entry("User", "Please say \"A\"."), Entry("User", "Please say \"A\".")>> }
ClientBodies ==
    { ResponseJ(Arr(<<GoodChoice>>)), ResponseJ(Arr(<<>>)), ErrorJ, SyntaxError,
      BodyDropped("Body"), BodyDropped("Decode") }

NoCodec == [op |-> "none"]
NoResult == [pending |-> TRUE]
NoRequest == [model |-> "", messages |-> <<>>]
NoWire == [method |-> "none"]

Init ==
    /\ newKey \in Keys
    /\ client = OpenAINew(newKey)
    /\ pc = [t \in Threads |-> "idle"]
    /\ chat = [t \in Threads |-> <<>>]
    /\ request = [t \in Threads |-> NoRequest]
    /\ wire = [t \in Threads |-> NoWire]
    /\ reply = [t \in Threads |-> NoReply]
    /\ result = [t \in Threads |-> NoResult]
    /\ steps = [t \in Threads |-> <<>>]
    /\ calls = [t \in Threads |-> 0]
    /\ sent = [t \in Threads |-> 0]
    /\ codec = NoCodec

\* complete_chat(&self, chat), line 123: the request is built from the log
Call(t) ==
    /\ pc[t] = "idle"
    /\ calls[t] < MaxCalls
    /\ \E c \in ClientChats :
        /\ chat' = [chat EXCEPT ![t] = c]
        /\ request' = [request EXCEPT ![t] = From(c)]
    /\ pc' = [pc EXCEPT ![t] = "built"]
    /\ calls' = [calls EXCEPT ![t] = @ + 1]
    /\ steps' = [steps EXCEPT ![t] = <<"from">>]
    /\ wire' = [wire EXCEPT ![t] = NoWire]
    /\ reply' = [reply EXCEPT ![t] = NoReply]
    /\ result' = [result EXCEPT ![t] = NoResult]
    /\ UNCHANGED <<client, newKey, sent, codec>>

\* lines 126-130: post(..).bearer_auth(..).json(&request).send()?
SendRetrying(t) ==
    /\ pc[t] = "built"
    /\ wire' = [wire EXCEPT ![t] = Post(client, request[t])]
    /\ sent' = [sent EXCEPT ![t] = @ + 1]
    /\ steps' = [steps EXCEPT ![t] = Append(@, "send")]
    /\ \/ /\ steps[t] = <<"from">>
          /\ UNCHANGED <<pc, reply, result>>
       \/ /\ reply' = [reply EXCEPT ![t] = SendFailed]
          /\ result' = [result EXCEPT ![t] = SendError]
          /\ pc' = [pc EXCEPT ![t] = "done"]
       \/ \E s \in Statuses, b \in ClientBodies :
            /\ reply' = [reply EXCEPT ![t] = Response(s, b)]
            /\ pc' = [pc EXCEPT ![t] = "replied"]
            /\ UNCHANGED result
    /\ UNCHANGED <<client, newKey, chat, request, calls, codec>>

SendThenDecode(t) ==
    /\ pc[t] = "built"
    /\ wire' = [wire EXCEPT ![t] = Post(client, request[t])]
    /\ sent' = [sent EXCEPT ![t] = @ + 1]
    /\ \/ /\ reply' = [reply EXCEPT ![t] = SendFailed]
          /\ steps' = [steps EXCEPT ![t] = @ \o <<"send", "json">>]
          /\ result' = [result EXCEPT ![t] = JsonError(SyntaxError)]
          /\ pc' = [pc EXCEPT ![t] = "done"]
       \/ \E s \in Statuses, b \in ClientBodies :
            /\ reply' = [reply EXCEPT ![t] = Response(s, b)]
            /\ steps' = [steps EXCEPT ![t] = Append(@, "send")]
            /\ pc' = [pc EXCEPT ![t] = "replied"]
            /\ UNCHANGED result
    /\ UNCHANGED <<client, newKey, chat, request, calls, codec>>

Send(t) ==
    /\ pc[t] = "built"
    /\ wire' = [wire EXCEPT ![t] = Post(client, request[t])]
    /\ sent' = [sent EXCEPT ![t] = @ + 1]
    /\ steps' = [steps EXCEPT ![t] = Append(@, "send")]
    /\ \/ /\ reply' = [reply EXCEPT ![t] = SendFailed]
          /\ result' = [result EXCEPT ![t] = SendError]
          /\ pc' = [pc EXCEPT ![t] = "done"]
       \/ \E s \in Statuses, b \in ClientBodies :
            /\ reply' = [reply EXCEPT ![t] = Response(s, b)]
            /\ pc' = [pc EXCEPT ![t] = "replied"]
            /\ UNCHANGED result
    /\ UNCHANGED <<client, newKey, chat, request, calls, codec>>

\* line 131: .json::<ChatCompletionResponse>(), the value of the call
Decode(t) ==
    /\ pc[t] = "replied"
    /\ result' = [result EXCEPT ![t] = Json(reply[t])]
    /\ steps' = [steps EXCEPT ![t] = Append(@, "json")]
    /\ pc' = [pc EXCEPT ![t] = "done"]
    /\ UNCHANGED <<client, newKey, chat, request, wire, reply, calls, sent, codec>>

\* the caller takes the Result; the call's locals are gone
Return(t) ==
    /\ pc[t] = "done"
    /\ pc' = [pc EXCEPT ![t] = "idle"]
    /\ chat' = [chat EXCEPT ![t] = <<>>]
    /\ request' = [request EXCEPT ![t] = NoRequest]
    /\ wire' = [wire EXCEPT ![t] = NoWire]
    /\ reply' = [reply EXCEPT ![t] = NoReply]
    /\ result' = [result EXCEPT ![t] = NoResult]
    /\ steps' = [steps EXCEPT ![t] = <<>>]
    /\ UNCHANGED <<client, newKey, calls, sent, codec>>

Next ==
    \E t \in Threads :
        \/ Call(t)
        \/ Send(t)
        \/ Decode(t)
        \/ Return(t)

Spec == Init /\ [][Next]_vars

(***************************************************************************)
(* The encoders and decoders on their own: one input is drawn, and the     *)
(* operation named by codec.op is applied to it once.                      *)
(***************************************************************************)
Contents == {"Hello, world!", "say \"A\""}
Entries == {Entry(r, c) : r \in ChatRoleVariants, c \in Contents}
ChatLogsOfLen(n) == [1..n -> Entries]
ChatLogs == UNION {ChatLogsOfLen(n) : n \in 0..MaxLen}

Absent == [t |-> "absent", v |-> "absent"]
\* an object of the members that are given
Object(members) == Obj(SelectSeq(members, LAMBDA m : m[2].t # "absent"))
MapForm(tok) == Obj(<< <<tok, Null>> >>)

RoleWire ==
    {Str("system"), Str("user"), Str("assistant"), Str("tool"), Str("Assistant"),
     Str("stop"), Str(""), Num(0), Null, MapForm("system"), MapForm("tool")}
FinishWire ==
    {Str("stop"), Str("length"), Str("eos"), Str("Stop"), Str("user"), Str(""),
     Num(0), Null, MapForm("stop"), MapForm("eos")}

MessageWire ==
    {Object(<< <<"role", r>>, <<"content", c>> >>) :
        r \in {Str("assistant"), Str("user"), Str("tool"), Str("Assistant"), Num(0),
               MapForm("system"), Absent},
        c \in {Str("A"), Num(1), Absent}}
    \cup {Arr(<<Str("assistant"), Str("A")>>), Arr(<<Str("assistant")>>),
          Arr(<<Str("assistant"), Str("A"), Str("B")>>), Str("A"),
          Obj(<< <<"content", Str("A")>>, <<"role", Str("assistant")>> >>),
          Obj(<< <<"role", Str("assistant")>>, <<"content", Str("A")>>,
                 <<"name", Str("n")>> >>),
          Obj(<< <<"role", Str("assistant")>>, <<"role", Str("assistant")>>,
                 <<"content", Str("A")>> >>)}

ChoiceWire ==
    {Object(<< <<"index", i>>, <<"message", m>>, <<"finish_reason", f>> >>) :
        i \in {Num(0), Num(-1), Float, Absent},
        m \in MessageWire \cup {Absent},
        f \in {Str("stop"), Str("length"), Str("eos"), Num(0), MapForm("stop"), Absent}}
    \cup {Arr(<<Num(0), SerChatEntry(Entry("Assistant", "A")), Str("stop")>>), Null}

UsageWire ==
    {GoodUsage, Arr(<<Num(10), Num(1), Num(11)>>), Arr(<<Num(10), Num(1)>>),
     Obj(<< <<"prompt_tokens", Num(10)>>, <<"completion_tokens", Num(1)>> >>),
     Obj(<< <<"prompt_tokens", Num(10)>>, <<"completion_tokens", Num(-1)>>,
            <<"total_tokens", Num(9)>> >>),
     Obj(<< <<"prompt_tokens", Str("10")>>, <<"completion_tokens", Num(1)>>,
            <<"total_tokens", Num(11)>> >>),
     Obj(<< <<"prompt_tokens", Num(10)>>, <<"prompt_tokens", Num(10)>>,
            <<"completion_tokens", Num(1)>>, <<"total_tokens", Num(11)>> >>),
     Str("none"), Absent}

ChoicesWire ==
    {Arr(<<>>), Arr(<<GoodChoice>>), Arr(<<GoodChoice, GoodChoice>>),
     Arr(<<GoodChoice, Null>>), Null, Obj(<<>>), GoodChoice, Absent}

ResponseWire ==
    {Object(<< <<"id", i>>, <<"object", o>>, <<"created", c>>, <<"choices", ch>>,
               <<"usage", u>> >>) :
        i \in {Str("x"), Num(7), Absent},
        o \in {Str("chat.completion"), Absent},
        c \in {Num(1), Num(-1), Float, Str("1"), Absent},
        ch \in ChoicesWire,
        u \in UsageWire}
    \cup {ResponseJ(Arr(<<c>>)) : c \in ChoiceWire}
    \cup {ResponseJ(Arr(<<GoodChoice, c>>)) : c \in ChoiceWire}
    \cup {SyntaxError, ErrorJ, Null, Arr(<<>>),
          Arr(<<Str("x"), Str("chat.completion"), Num(1), Arr(<<>>), GoodUsage>>),
          Obj(<< <<"id", Str("x")>>, <<"id", Str("y")>>,
                 <<"object", Str("chat.completion")>>, <<"created", Num(1)>>,
                 <<"choices", Arr(<<>>)>>, <<"usage", GoodUsage>> >>),
          Obj(<< <<"usage", GoodUsage>>, <<"choices", Arr(<<>>)>>,
                 <<"system_fingerprint", Null>>, <<"created", Num(1)>>,
                 <<"object", Str("chat.completion")>>, <<"id", Str("x")>> >>)}

CodecInputs ==
    {[op |-> "ser_role", in |-> r] : r \in ChatRoleVariants}
    \cup {[op |-> "ser_finish", in |-> f] : f \in FinishReasonVariants}
    \cup {[op |-> "de_role", in |-> j] : j \in RoleWire}
    \cup {[op |-> "de_finish", in |-> j] : j \in FinishWire}
    \cup {[op |-> "chat_log", in |-> l] : l \in ChatLogs}
    \cup {[op |-> "de_response", in |-> j] : j \in ResponseWire}

Pending == [pending |-> TRUE]

InitCodec ==
    /\ newKey \in Keys
    /\ client = OpenAINew(newKey)
    /\ pc = [t \in Threads |-> "idle"]
    /\ chat = [t \in Threads |-> <<>>]
    /\ request = [t \in Threads |-> NoRequest]
    /\ wire = [t \in Threads |-> NoWire]
    /\ reply = [t \in Threads |-> NoReply]
    /\ result = [t \in Threads |-> NoResult]
    /\ steps = [t \in Threads |-> <<>>]
    /\ calls = [t \in Threads |-> 0]
    /\ sent = [t \in Threads |-> 0]
    /\ \E i \in CodecInputs :
        codec = [op |-> i.op, in |-> i.in, wire |-> Pending, out |-> Pending]

ClientIdle ==
    UNCHANGED <<client, newKey, pc, chat, request, wire, reply, result, steps, calls, sent>>

\* serde_json::to_value of a ChatRole, and reading it back
SerializeRole ==
    /\ codec.op = "ser_role" /\ codec.out = Pending
    /\ codec' = [codec EXCEPT !.wire = SerChatRole(codec.in),
                              !.out = DeChatRole(SerChatRole(codec.in))]
    /\ ClientIdle

SerializeFinish ==
    /\ codec.op = "ser_finish" /\ codec.out = Pending
    /\ codec' = [codec EXCEPT !.wire = SerFinishReason(codec.in),
                              !.out = DeFinishReason(SerFinishReason(codec.in))]
    /\ ClientIdle

DeserializeRole ==
    /\ codec.op = "de_role" /\ codec.out = Pending
    /\ codec' = [codec EXCEPT !.wire = codec.in, !.out = DeChatRole(codec.in)]
    /\ ClientIdle

DeserializeFinish ==
    /\ codec.op = "de_finish" /\ codec.out = Pending
    /\ codec' = [codec EXCEPT !.wire = codec.in, !.out = DeFinishReason(codec.in)]
    /\ ClientIdle

\* serde_json::to_string(&log) as in test_chat_log, and reading it back
RoundTripChatLog ==
    /\ codec.op = "chat_log" /\ codec.out = Pending
    /\ codec' = [codec EXCEPT !.wire = SerChatLog(codec.in),
                              !.out = DeChatLog(SerChatLog(codec.in))]
    /\ ClientIdle

\* serde_json::from_slice::<ChatCompletionResponse>
DeserializeResponse ==
    /\ codec.op = "de_response" /\ codec.out = Pending
    /\ codec' = [codec EXCEPT !.wire = codec.in, !.out = DeResponse(codec.in)]
    /\ ClientIdle

NextCodec ==
    \/ SerializeRole
    \/ SerializeFinish
    \/ DeserializeRole
    \/ DeserializeFinish
    \/ RoundTripChatLog
    \/ DeserializeResponse

SpecCodec == InitCodec /\ [][NextCodec]_vars

(***************************************************************************)
(* Properties of complete_chat, checked under Spec                         *)
(***************************************************************************)
Done(t) == pc[t] = "done"
Failed(t) == Done(t) /\ ~result[t].ok
Succeeded(t) == Done(t) /\ result[t].ok
\* the caller's view of a reqwest::Error: is_decode() or not
IsDecode(e) == e.kind = "Decode"
IsTransport(e) == e.kind \in {"Request", "Body"}
SendsIn(s) == Cardinality({i \in 1..Len(s) : s[i] = "send"})

\* C1: every call of complete_chat hands exactly one request to the network:
\* before its send step none, after it exactly one whatever the outcome
\* (transport failure, decode failure, success), so over any run a thread
\* has sent as many requests as it has started calls that reached send.
C1_OneRequestPerCall ==
    \A t \in Threads :
        /\ sent[t] = (IF pc[t] = "built" THEN calls[t] - 1 ELSE calls[t])
        /\ pc[t] \in {"replied", "done"} => SendsIn(steps[t]) = 1
        /\ pc[t] = "built" => SendsIn(steps[t]) = 0

C1_Witness ==
    \E t, u \in Threads :
        /\ Failed(t) /\ reply[t] = SendFailed /\ calls[t] = 2 /\ sent[t] = 2
        /\ Failed(u) /\ IsDecode(result[u].err) /\ sent[u] = 1

\* C2: when the send step fails, complete_chat returns a Transport error
\* and the decode step (json) is not among the steps that call ran.
C2_SendFailureSkipsDecode ==
    \A t \in Threads :
        (Done(t) /\ reply[t] = SendFailed) =>
            /\ ~result[t].ok
            /\ IsTransport(result[t].err)
            /\ steps[t] = <<"from", "send">>

C2_Witness ==
    \E t \in Threads : Done(t) /\ reply[t] = SendFailed /\ sent[t] = 1

C4_RequestFromConversation ==
    \A t \in Threads :
        /\ pc[t] # "idle" =>
              /\ request[t].model = "gpt-3.5-turbo"
              /\ Len(request[t].messages) = Len(chat[t])
              /\ \A i \in 1..Len(chat[t]) : request[t].messages[i] = chat[t][i]
        /\ pc[t] \in {"replied", "done"} =>
              wire[t].body = Obj(<< <<"model", Str("gpt-3.5-turbo")>>,
                                    <<"messages", SerChatLog(chat[t])>> >>)

C4_Witness ==
    \E t, u \in Threads :
        /\ pc[t] = "replied" /\ chat[t] = <<>>
        /\ pc[u] = "replied" /\ Len(chat[u]) = 2 /\ chat[u][1] # chat[u][2]

\* C7 as stated: a success value returned for a reply the remote reported
\* as a success (status 200) always has at least one choice.
C7_SuccessHasChoice ==
    \A t \in Threads :
        (Succeeded(t) /\ reply[t].status = 200) => Len(result[t].v.choices) > 0

\* C7 as amended: a success value has exactly the choices of the reply's
\* choices array, in number and order, and that may be none: a reply whose
\* body is well formed with an empty choices array is a success value with
\* no choice.
C7_ChoicesAsReplied ==
    \A t \in Threads :
        /\ Succeeded(t) =>
              LET sentChoices == Fields(reply[t].body,
                      <<"id", "object", "created", "choices", "usage">>).v["choices"] IN
              /\ Len(result[t].v.choices) = Len(sentChoices.v)
              /\ \A i \in 1..Len(sentChoices.v) :
                    Ok(result[t].v.choices[i]) = DeChoice(sentChoices.v[i])
        /\ (Done(t) /\ reply[t].kind = "response"
                /\ reply[t].body = ResponseJ(Arr(<<>>))) =>
              /\ result[t].ok
              /\ result[t].v.choices = <<>>

C7_Witness ==
    \E t, u \in Threads :
        /\ Succeeded(t) /\ reply[t].status = 200 /\ result[t].v.choices = <<>>
        /\ Succeeded(u) /\ Len(result[u].v.choices) = 1

\* C9: the client is the one new() built: its api_key is the key given to
\* new; every request is a POST to the fixed endpoint with that key as bearer
\* token; and two calls with the same ChatLog and the same reply have the
\* same result, whatever else ran in between or beside them.
C9_ClientUnchanged ==
    /\ client = [client |-> "reqwest::blocking::Client", api_key |-> newKey]
    /\ \A t \in Threads :
          wire[t] # NoWire =>
              /\ wire[t].method = "POST"
              /\ wire[t].url = "https://api.openai.com/v1/chat/completions"
              /\ wire[t].bearer = newKey
    /\ \A t, u \in Threads :
          (Done(t) /\ Done(u) /\ chat[t] = chat[u] /\ reply[t] = reply[u])
              => result[t] = result[u]

C9_Witness ==
    \E t, u \in Threads :
        /\ t # u /\ calls[t] = 2 /\ calls[u] = 2
        /\ Succeeded(t) /\ Failed(u)
        /\ wire[t].bearer = newKey /\ wire[u].bearer = newKey

\* C10: once a reply has arrived, the result is a success exactly when the
\* body is a well-formed ChatCompletionResponse, whatever the status: a 500
\* with a well-formed body is a success, a 200 with another body a failure.
C10_StatusNotInspected ==
    \A t \in Threads :
        (Done(t) /\ reply[t].kind = "response") =>
            /\ result[t].ok <=>
                  reply[t].body \in {ResponseJ(Arr(<<GoodChoice>>)), ResponseJ(Arr(<<>>))}
            /\ \A u \in Threads :
                  (Done(u) /\ reply[u].kind = "response"
                      /\ reply[u].body = reply[t].body) => result[u] = result[t]

C10_Witness ==
    \E t, u \in Threads :
        /\ Succeeded(t) /\ reply[t].kind = "response" /\ reply[t].status = 500
        /\ Failed(u) /\ reply[u].kind = "response" /\ reply[u].status = 200

(***************************************************************************)
(* Properties of the encoders and decoders, checked under SpecCodec        *)
(***************************************************************************)
Applied(op) == codec.op = op /\ codec.out # Pending
WireRoleTokens == {"system", "user", "assistant"}
WireFinishTokens == {"stop", "length"}
WireRole == [System |-> "system", User |-> "user", Assistant |-> "assistant"]
WireFinish == [Stop |-> "stop", Length |-> "length"]

\* C5: a ChatLog encodes to an array whose i-th element is the i-th entry,
\* {"role": <token>, "content": <text>}, and decoding that array gives back
\* a ChatLog of the same length with the same entries in the same order,
\* repeated entries kept.
C5_ChatLogRoundTrip ==
    Applied("chat_log") =>
        /\ codec.wire.t = "arr"
        /\ Len(codec.wire.v) = Len(codec.in)
        /\ \A i \in 1..Len(codec.in) :
              codec.wire.v[i] = Obj(<< <<"role", Str(WireRole[codec.in[i].role])>>,
                                       <<"content", Str(codec.in[i].content)>> >>)
        /\ codec.out.ok
        /\ Len(codec.out.v) = Len(codec.in)
        /\ \A i \in 1..Len(codec.in) : codec.out.v[i] = codec.in[i]

C5_Witness ==
    /\ Applied("chat_log")
    /\ Len(codec.in) = MaxLen
    /\ codec.in[1] = codec.in[MaxLen]
    /\ codec.in[1].role = "User"
    /\ codec.out.ok

\* C6: each ChatRole and FinishReason variant encodes to its fixed lowercase
\* token and decodes back to itself; a token that names a variant decodes
\* to that variant and every other token is a decode error, never a variant.
C6_ClosedEnumerations ==
    /\ Applied("ser_role") =>
          /\ codec.wire = Str(WireRole[codec.in])
          /\ codec.out = Ok(codec.in)
    /\ Applied("ser_finish") =>
          /\ codec.wire = Str(WireFinish[codec.in])
          /\ codec.out = Ok(codec.in)
    /\ (Applied("de_role") /\ codec.in.t = "str") =>
          IF codec.in.v \in WireRoleTokens
          THEN codec.out.ok /\ WireRole[codec.out.v] = codec.in.v
          ELSE ~codec.out.ok
    /\ (Applied("de_finish") /\ codec.in.t = "str") =>
          IF codec.in.v \in WireFinishTokens
          THEN codec.out.ok /\ WireFinish[codec.out.v] = codec.in.v
          ELSE ~codec.out.ok

C6_Witness ==
    /\ Applied("de_role")
    /\ codec.in = Str("Assistant")
    /\ ~codec.out.ok

\* The failure causes C8 lists, read off the wire shape: a required field
\* is absent, a field has the wrong type, an enumerated field holds a token
\* outside its set.  With strict, a struct is an object and an enumerated
\* value a string, nothing else; without, a struct may also be the array of
\* its fields in declaration order and an enumerated value the one-member
\* object {token: null}.
ResponseNames == <<"id", "object", "created", "choices", "usage">>
ChoiceNames == <<"index", "message", "finish_reason">>
MessageNames == <<"role", "content">>
UsageNames == <<"prompt_tokens", "completion_tokens", "total_tokens">>

StructFault(j, names, strict) ==
    IF j.t = "obj" THEN \E n \in Range(names) : Members(j, n) = {}
    ELSE IF ~strict /\ j.t = "arr" THEN Len(j.v) # Len(names)
    ELSE TRUE

\* the values a struct's wire form gives for field n
FieldVals(j, names, n) ==
    IF j.t = "obj" THEN {j.v[i][2] : i \in Members(j, n)}
    ELSE {j.v[CHOOSE i \in 1..Len(names) : names[i] = n]}

StrFault(x) == x.t # "str"
UsizeFault(x) == ~(x.t = "int" /\ x.v >= 0)
EnumFault(x, tokens, strict) ==
    IF x.t = "str" THEN x.v \notin tokens
    ELSE IF ~strict /\ x.t = "obj" /\ Len(x.v) = 1 /\ x.v[1][2].t = "null"
         THEN x.v[1][1] \notin tokens
         ELSE TRUE

MessageFault(j, strict) ==
    \/ StructFault(j, MessageNames, strict)
    \/ \E x \in FieldVals(j, MessageNames, "role") : EnumFault(x, WireRoleTokens, strict)
    \/ \E x \in FieldVals(j, MessageNames, "content") : StrFault(x)

ChoiceFault(j, strict) ==
    \/ StructFault(j, ChoiceNames, strict)
    \/ \E x \in FieldVals(j, ChoiceNames, "index") : UsizeFault(x)
    \/ \E x \in FieldVals(j, ChoiceNames, "message") : MessageFault(x, strict)
    \/ \E x \in FieldVals(j, ChoiceNames, "finish_reason") :
          EnumFault(x, WireFinishTokens, strict)

UsageFault(j, strict) ==
    \/ StructFault(j, UsageNames, strict)
    \/ \E n \in Range(UsageNames) : \E x \in FieldVals(j, UsageNames, n) : UsizeFault(x)

ResponseFault(j, strict) ==
    \/ j.t = "syntax_error"
    \/ StructFault(j, ResponseNames, strict)
    \/ \E x \in FieldVals(j, ResponseNames, "id") : StrFault(x)
    \/ \E x \in FieldVals(j, ResponseNames, "object") : StrFault(x)
    \/ \E x \in FieldVals(j, ResponseNames, "created") : UsizeFault(x)
    \/ \E x \in FieldVals(j, ResponseNames, "choices") :
          x.t # "arr" \/ \E i \in 1..Len(x.v) : ChoiceFault(x.v[i], strict)
    \/ \E x \in FieldVals(j, ResponseNames, "usage") : UsageFault(x, strict)

\* every field present and well typed, and the choices array empty
WellFormedEmpty(j) ==
    /\ j.t = "obj"
    /\ ~ResponseFault(j, TRUE)
    /\ FieldVals(j, ResponseNames, "choices") = {Arr(<<>>)}

Once(j, names) == \A n \in Range(names) : Cardinality(Members(j, n)) = 1

\* C8 as stated: decoding fails on each listed cause, and a payload with
\* every field present and well typed and an empty choices array decodes to
\* a response with no choice.  A payload that is itself an array names no
\* field at all and is left out of the statement.
C8_DecodeFailsOnListedCauses ==
    Applied("de_response") =>
        /\ (codec.in.t # "arr" /\ ResponseFault(codec.in, TRUE)) => ~codec.out.ok
        /\ WellFormedEmpty(codec.in) => (codec.out.ok /\ codec.out.v.choices = <<>>)

\* C8 as amended: the same, where a struct-typed value (the response, a
\* choice, a message, usage) has the right type as an object or as the
\* array of its fields in declaration order, an enumerated value as its
\* token or as the object {token: null}, and the payload with the empty
\* choices array gives each required field once.
C8_DecodeFailsOnSerdeCauses ==
    Applied("de_response") =>
        /\ ResponseFault(codec.in, FALSE) => ~codec.out.ok
        /\ (WellFormedEmpty(codec.in) /\ Once(codec.in, ResponseNames)
                /\ \A u \in FieldVals(codec.in, ResponseNames, "usage") :
                      Once(u, UsageNames))
              => (codec.out.ok /\ codec.out.v.choices = <<>>)

C8_Witness ==
    /\ Applied("de_response")
    /\ WellFormedEmpty(codec.in)
    /\ Len(codec.in.v) > Len(ResponseNames)
    /\ codec.out.ok
    /\ codec.out.v.choices = <<>>

====
